---------------------------- MODULE Spec2Model ----------------------------
(* Model of the ree HTTP framework: the method router of                  *)
(* core/src/router.rs, the engine and route groups of src/ree.rs and the  *)
(* middleware of examples/middleware_guide/src/main.rs.                   *)
(* Strings are sequences of one-character strings, so that splitting,     *)
(* prefix tests, joining and key formatting are computed, not assumed.    *)
EXTENDS Integers, Sequences, FiniteSets, TLC

\* ------------------------------------------------------------------ bounds
MaxRoutes == 2
MaxMiddlewares == 1
MaxGlobalMiddlewares == 2
MaxRequests == 2
MaxPatternLen == 7
MaxTasks == 3
MaxResets == 2

\* ------------------------------------------------------------ string layer
starts_with(s, c) == Len(s) > 0 /\ s[1] = c

strip_prefix(s) == Tail(s)

RECURSIVE split_from(_, _, _, _)
split_from(s, i, cur, acc) ==
    IF i > Len(s) THEN Append(acc, cur)
    ELSE IF s[i] = "/" THEN split_from(s, i + 1, <<>>, Append(acc, cur))
    ELSE split_from(s, i + 1, Append(cur, s[i]), acc)

\* str::split('/'): every piece between slashes, empty pieces included
split(s) == split_from(s, 1, <<>>, <<>>)

RECURSIVE join(_)
join(parts) ==
    IF Len(parts) = 0 THEN <<>>
    ELSE IF Len(parts) = 1 THEN parts[1]
    ELSE parts[1] \o <<"/">> \o join(Tail(parts))

\* a key that leaves the method out
format_key_no_method(method, pattern) == <<"-">> \o pattern

format_key(method, pattern) == method \o <<"-">> \o pattern

\* ------------------------------------------------------------ option, maps
None == <<>>
Some(x) == <<x>>

EmptyMap == [k \in {} |-> <<>>]

insert_map(m, k, v) == [x \in (DOMAIN m) \cup {k} |-> IF x = k THEN v ELSE m[x]]

\* a merge in which the entries already present win
extend_keep_existing(a, b) ==
    [x \in (DOMAIN a) \cup (DOMAIN b) |-> IF x \in DOMAIN a THEN a[x] ELSE b[x]]

\* HashMap::extend: every pair of b is inserted into a, replacing on collision
extend(a, b) == [x \in (DOMAIN a) \cup (DOMAIN b) |-> IF x \in DOMAIN b THEN b[x] ELSE a[x]]

\* ----------------------------------------------------------- parse_pattern
\* a loop that goes on after a segment starting with '*'
RECURSIVE parse_loop_no_break(_, _, _)
parse_loop_no_break(vs, i, part) ==
    IF i > Len(vs) THEN part
    ELSE IF vs[i] # <<>>
         THEN parse_loop_no_break(vs, i + 1, Append(part, vs[i]))
         ELSE parse_loop_no_break(vs, i + 1, part)

RECURSIVE parse_loop(_, _, _)
parse_loop(vs, i, part) ==
    IF i > Len(vs) THEN part
    ELSE IF vs[i] # <<>>
         THEN IF starts_with(vs[i], "*")
              THEN Append(part, vs[i])
              ELSE parse_loop(vs, i + 1, Append(part, vs[i]))
         ELSE parse_loop(vs, i + 1, part)

parse_pattern(pattern) == parse_loop(split(pattern), 1, <<>>)

\* --------------------------------------------------------------- trie node
DefaultNode == [segment |-> <<>>, pattern |-> <<>>, isParametric |-> FALSE, children |-> <<>>]

NewNode(seg) ==
    [segment |-> seg, pattern |-> <<>>,
     isParametric |-> (starts_with(seg, ":") \/ starts_with(seg, "*")),
     children |-> <<>>]

RECURSIVE child_index(_, _, _)
child_index(children, seg, i) ==
    IF i > Len(children) THEN 0
    ELSE IF children[i].segment = seg THEN i
    ELSE child_index(children, seg, i + 1)

RECURSIVE insert(_, _, _, _)
insert(node, pattern, segments, depth) ==
    IF depth = Len(segments) THEN [node EXCEPT !.pattern = pattern]
    ELSE LET seg == segments[depth + 1]
             idx == child_index(node.children, seg, 1)
         IN IF idx = 0
            THEN [node EXCEPT !.children =
                     Append(@, insert(NewNode(seg), pattern, segments, depth + 1))]
            ELSE [node EXCEPT !.children[idx] =
                     insert(@, pattern, segments, depth + 1)]

candidate(child, part) == child.segment = part \/ child.isParametric

RECURSIVE search(_, _, _)
RECURSIVE search_children(_, _, _, _, _)
search(node, segments, depth) ==
    IF depth = Len(segments) \/ starts_with(node.segment, "*")
    THEN IF node.pattern = <<>> THEN None ELSE Some(node)
    ELSE search_children(node.children, 1, segments[depth + 1], segments, depth)

\* a search that follows the first candidate only and never backtracks
RECURSIVE search_first_candidate(_, _, _, _, _)
search_first_candidate(children, i, part, segments, depth) ==
    IF i > Len(children) THEN None
    ELSE IF candidate(children[i], part)
         THEN search(children[i], segments, depth + 1)
         ELSE search_first_candidate(children, i + 1, part, segments, depth)

search_children(children, i, part, segments, depth) ==
    IF i > Len(children) THEN None
    ELSE IF candidate(children[i], part)
         THEN LET r == search(children[i], segments, depth + 1)
              IN IF r # None THEN r
                 ELSE search_children(children, i + 1, part, segments, depth)
         ELSE search_children(children, i + 1, part, segments, depth)

RECURSIVE collect_patterns(_)
RECURSIVE collect_children(_, _)
collect_patterns(node) ==
    (IF node.pattern = <<>> THEN {} ELSE {node.pattern})
        \cup collect_children(node.children, 1)

collect_children(children, i) ==
    IF i > Len(children) THEN {}
    ELSE collect_patterns(children[i]) \cup collect_children(children, i + 1)

\* ------------------------------------------------------------------ router
NewRouter == [roots |-> EmptyMap, handlers |-> EmptyMap]

root_entry(r, method) == IF method \in DOMAIN r.roots THEN r.roots[method] ELSE DefaultNode

\* a registration that keeps the handler already stored under the key
add_route_keep_first(r, method, pattern, handler) ==
    LET parts == parse_pattern(pattern)
        key == format_key(method, pattern)
    IN [roots |-> insert_map(r.roots, method,
                             insert(root_entry(r, method), pattern, parts, 0)),
        handlers |-> IF key \in DOMAIN r.handlers THEN r.handlers
                     ELSE insert_map(r.handlers, key, handler)]

add_route(r, method, pattern, handler) ==
    LET parts == parse_pattern(pattern)
        key == format_key(method, pattern)
    IN [roots |-> insert_map(r.roots, method,
                             insert(root_entry(r, method), pattern, parts, 0)),
        handlers |-> insert_map(r.handlers, key, handler)]

RECURSIVE extract_params(_, _, _, _)
extract_params(parts, search_parts, index, params) ==
    IF index > Len(parts) THEN params
    ELSE LET ele == parts[index]
         IN IF starts_with(ele, ":")
            THEN extract_params(parts, search_parts, index + 1,
                                insert_map(params, strip_prefix(ele), search_parts[index]))
            ELSE IF starts_with(ele, "*")
                 THEN insert_map(params, strip_prefix(ele),
                                 join(SubSeq(search_parts, index, Len(search_parts))))
                 ELSE extract_params(parts, search_parts, index + 1, params)

get_route(r, method, path) ==
    LET search_parts == parse_pattern(path)
    IN IF method \notin DOMAIN r.roots
       THEN [node |-> None, params |-> EmptyMap]
       ELSE LET found == search(r.roots[method], search_parts, 0)
            IN IF found # None
               THEN [node |-> found,
                     params |-> extract_params(parse_pattern(found[1].pattern),
                                               search_parts, 1, EmptyMap)]
               ELSE [node |-> None, params |-> EmptyMap]

handle(r, key) == IF key \in DOMAIN r.handlers THEN Some(r.handlers[key]) ELSE None

get_all_routes(r) ==
    UNION {{<<method, p>> : p \in collect_patterns(r.roots[method])} : method \in DOMAIN r.roots}

not_found == [status |-> 404, by |-> 0, headers |-> {}]

handler_response(h) == [status |-> 200, by |-> h, headers |-> {}]

\* result of Router::handle_request: the response, the handler that ran
\* (None when none did) and the parameter map the handler was given
handle_request(r, method, path, ctx_params) ==
    LET route == get_route(r, method, path)
    IN IF route.node = None
       THEN [resp |-> not_found, invoked |-> None, params |-> ctx_params, pattern |-> None]
       ELSE LET merged == extend(ctx_params, route.params)
                key == format_key(method, route.node[1].pattern)
                h == handle(r, key)
            IN IF h # None
               THEN [resp |-> handler_response(h[1]), invoked |-> h,
                     params |-> merged, pattern |-> Some(route.node[1].pattern)]
               ELSE [resp |-> not_found, invoked |-> None,
                     params |-> merged, pattern |-> Some(route.node[1].pattern)]

\* ------------------------------------------------------------------ inputs
GET == <<"G", "E", "T">>
POST == <<"P", "O", "S", "T">>
Methods == {GET, POST}

PatRoot == <<"/">>
PatA == <<"/", "a">>
PatASlash == <<"/", "a", "/">>
PatX == <<"/", ":", "x">>
PatAXB == <<"/", "a", "/", ":", "x", "/", "b">>
PatAW == <<"/", "a", "/", "*", "w">>
PatXB == <<"/", ":", "x", "/", "b">>
Patterns == {PatRoot, PatA, PatASlash, PatX, PatAXB, PatAW, PatXB}

Paths ==
    {<<"/">>,
     <<"/", "a">>,
     <<"/", "a", "/", "b">>,
     <<"/", "a", "/", "b", "/", "b">>,
     <<"/", "a", "/", "b", "/", "a">>,
     <<"/", "a", "/", "*", "b", "/", "b">>,
     <<"/", "*", "b", "/", "b">>}

\* parameter maps a request context may carry before routing
PreParams == {EmptyMap, [k \in {<<"x">>} |-> <<"p">>]}

\* ------------------------------------------------------------------- state
VARIABLES
    router,       \* Engine.router / the Router under test
    group,        \* Engine.group: prefix -> RouterGroup
    registered,   \* the add_route calls made so far, in order
    last,         \* the latest call and what it returned
    running,      \* Engine::run has taken the engine and serves requests
    middlewares,  \* the engine's global middleware, in registration order
    counters,     \* requests_count of every rate_limit instance
    task,         \* the request task going through its middleware chain
    served,       \* requests received so far
    limiter,      \* the shared state of one rate_limit instance
    requests      \* the concurrent request tasks going through that instance

chain_vars == <<middlewares, counters, task, served>>

vars == <<router, group, registered, last, running, middlewares, counters, task, served,
          limiter, requests>>

\* requests_count at 0, the mutex of last_reset free, no reset yet
NewLimiter == [requests_count |-> 0, holder |-> 0, resets |-> 0]

NoRequests == [r \in 1..MaxTasks |-> [pc |-> "lock"]]

Idle == [pc |-> "idle"]

Init ==
    /\ router = NewRouter
    /\ group = EmptyMap
    /\ registered = <<>>
    /\ last = [op |-> "new"]
    /\ running = FALSE
    /\ middlewares = <<>>
    /\ counters = EmptyMap
    /\ task = Idle
    /\ served = 0
    /\ limiter = NewLimiter
    /\ requests = NoRequests

\* Router::add_route; every registered closure is a distinct handler
AddRoute(method, pattern) ==
    /\ Len(registered) < MaxRoutes
    /\ LET handler == Len(registered) + 1
       IN /\ router' = add_route(router, method, pattern, handler)
          /\ registered' = Append(registered,
                 [prefix |-> <<>>, method |-> method, pattern |-> pattern,
                  handler |-> handler])
          /\ last' = [op |-> "add_route", method |-> method, pattern |-> pattern,
                      handler |-> handler]
    /\ UNCHANGED <<limiter, requests, group, running, chain_vars>>

GetRoute(method, path) ==
    /\ last' = [op |-> "get_route", method |-> method, path |-> path,
                ret |-> get_route(router, method, path)]
    /\ UNCHANGED <<limiter, requests, router, group, registered, running, chain_vars>>

HandleRequest(method, path, pre) ==
    /\ last' = [op |-> "handle_request", method |-> method, path |-> path,
                pre |-> pre, ret |-> handle_request(router, method, path, pre)]
    /\ UNCHANGED <<limiter, requests, router, group, registered, running, chain_vars>>

Next ==
    \/ \E method \in Methods, pattern \in Patterns : AddRoute(method, pattern)
    \/ \E method \in Methods, path \in Paths : GetRoute(method, path)
    \/ \E method \in Methods, path \in Paths, pre \in PreParams :
           HandleRequest(method, path, pre)

Spec == Init /\ [][Next]_vars

\* methods and patterns whose handler keys '{method}-{pattern}' coincide
MethodM == <<"M">>
MethodMDash == <<"M", "-">>
DashMethods == {MethodM, MethodMDash}
PatDashA == <<"-", "/", "a">>
DashPatterns == {PatA, PatDashA}
DashPaths == {<<"/", "a">>, <<"/", "-", "/", "a">>}

NextKeys ==
    \/ \E method \in DashMethods, pattern \in DashPatterns : AddRoute(method, pattern)
    \/ \E method \in DashMethods, path \in DashPaths : GetRoute(method, path)
    \/ \E method \in DashMethods, path \in DashPaths, pre \in PreParams :
           HandleRequest(method, path, pre)

SpecKeys == Init /\ [][NextKeys]_vars

\* ------------------------------------------------------------------ engine
GroupPrefixes == {<<"/", "g">>, <<"/", "a">>}
GroupPatterns == {PatA, PatX}
EnginePatterns == {PatRoot, PatA, PatX}
EnginePaths == {<<"/">>, <<"/", "a">>, <<"/", "g", "/", "a">>, <<"/", "a", "/", "a">>}

NewRouterGroup(prefix) == [prefix |-> prefix, router |-> NewRouter, middlewares |-> <<>>]

\* Engine::add_route
EngineAddRoute(method, pattern) ==
    /\ ~running
    /\ AddRoute(method, pattern)

\* Engine::group: a fresh group is stored under the prefix, replacing any
\* group already stored there
EngineGroup(prefix) ==
    /\ ~running
    /\ group' = insert_map(group, prefix, NewRouterGroup(prefix))
    /\ last' = [op |-> "group", prefix |-> prefix]
    /\ UNCHANGED <<limiter, requests, router, registered, running, chain_vars>>

\* RouterGroup::add_route on the handle returned by Engine::group
GroupAddRoute(prefix, method, pattern) ==
    /\ ~running
    /\ prefix \in DOMAIN group
    /\ Len(registered) < MaxRoutes
    /\ LET handler == Len(registered) + 1
       IN /\ group' = [group EXCEPT ![prefix].router =
                           add_route(@, method, pattern, handler)]
          /\ registered' = Append(registered,
                 [prefix |-> prefix, method |-> method, pattern |-> pattern,
                  handler |-> handler])
          /\ last' = [op |-> "group_add_route", prefix |-> prefix, method |-> method,
                      pattern |-> pattern, handler |-> handler]
    /\ UNCHANGED <<limiter, requests, router, running, chain_vars>>

\* a middleware value built by one of the constructors of the guide; a
\* rate_limit instance owns a counter that starts at 0
Instance(kind, scope, idx) == [kind |-> kind, scope |-> scope, idx |-> idx]

with_counter(cs, m) == IF m.kind = "rate_limit" THEN insert_map(cs, m, 0) ELSE cs

\* RouterGroup::use_middleware
GroupUseMiddleware(prefix, kind) ==
    /\ ~running
    /\ prefix \in DOMAIN group
    /\ Len(group[prefix].middlewares) < MaxMiddlewares
    /\ LET m == Instance(kind, prefix, Len(group[prefix].middlewares) + 1)
       IN /\ group' = [group EXCEPT ![prefix].middlewares = Append(@, m)]
          /\ counters' = with_counter(counters, m)
    /\ last' = [op |-> "use_middleware", prefix |-> prefix]
    /\ UNCHANGED <<limiter, requests, router, registered, running, middlewares, task, served>>

\* Engine::run: the engine is consumed; self.router alone is shared with
\* the connection tasks
EngineRun ==
    /\ ~running
    /\ running' = TRUE
    /\ last' = [op |-> "run"]
    /\ UNCHANGED <<limiter, requests, router, group, registered, chain_vars>>

\* one request served by the service_fn of Engine::run
EngineServe(method, path) ==
    /\ running
    /\ HandleRequest(method, path, EmptyMap)

\* the routes of the table the engine dispatches on
EngineGetAllRoutes ==
    /\ last' = [op |-> "get_all_routes", ret |-> get_all_routes(router)]
    /\ UNCHANGED <<limiter, requests, router, group, registered, running, chain_vars>>

NextEngine ==
    \/ \E method \in Methods, pattern \in EnginePatterns : EngineAddRoute(method, pattern)
    \/ \E prefix \in GroupPrefixes : EngineGroup(prefix)
    \/ \E prefix \in GroupPrefixes, method \in Methods, pattern \in GroupPatterns :
           GroupAddRoute(prefix, method, pattern)
    \/ \E prefix \in GroupPrefixes : GroupUseMiddleware(prefix, "auth")
    \/ EngineRun
    \/ \E method \in Methods, path \in EnginePaths : EngineServe(method, path)
    \/ EngineGetAllRoutes

SpecEngine == Init /\ [][NextEngine]_vars

\* -------------------------------------------------------- middleware chain
MiddlewareKinds == {"access_log", "auth", "rate_limit", "cors"}
ApiPrefix == <<"/", "a", "p", "i">>
TopLevel == <<>>

\* max_requests handed to rate_limit
RateLimit == 1

unauthorized_json == [status |-> 401, by |-> 0, headers |-> {}]
too_many_requests_json == [status |-> 429, by |-> 0, headers |-> {}]

\* an auth that lets every request through
auth_always_next(authorized) == TRUE

\* auth: next(ctx) is called only when the Authorization header is the token
auth_calls_next(authorized) == authorized

\* a limiter that lets the request through when the counter equals the limit
rate_limit_calls_next_inclusive(current) == ~(current > RateLimit)

\* rate_limit: next(ctx) is called unless the counter had reached the limit
rate_limit_calls_next(current) == ~(current >= RateLimit)

\* whether the middleware body reaches its call of next(ctx)
calls_next(m, authorized, current) ==
    CASE m.kind = "auth" -> auth_calls_next(authorized)
      [] m.kind = "rate_limit" -> rate_limit_calls_next(current)
      [] OTHER -> TRUE

\* rate_limit: the counter value fetch_add sees, after the reset of an
\* elapsed window
window_count(m, expired) == IF expired THEN 0 ELSE counters[m]

\* what the middleware body returns when it does not call next(ctx)
early_return(m) ==
    IF m.kind = "auth" THEN unauthorized_json ELSE too_many_requests_json

\* what the middleware body returns once next(ctx) has returned response
after_next(m, response) ==
    IF m.kind = "cors"
    THEN [response EXCEPT !.headers = @ \cup {"Access-Control-Allow-Origin",
                                               "Access-Control-Allow-Methods",
                                               "Access-Control-Allow-Headers"}]
    ELSE response

\* a chain that runs the group's middleware before the global middleware
chain_group_first(owner) ==
    (IF owner = TopLevel THEN <<>> ELSE group[owner].middlewares) \o middlewares

\* the chain of a matched route: the global middleware in registration
\* order, then the middleware of the group the route belongs to
chain_for(owner) ==
    middlewares \o (IF owner = TopLevel THEN <<>> ELSE group[owner].middlewares)

\* Engine::use_middleware
UseMiddleware(kind) ==
    /\ ~running
    /\ Len(middlewares) < MaxGlobalMiddlewares
    /\ LET m == Instance(kind, TopLevel, Len(middlewares) + 1)
       IN /\ middlewares' = Append(middlewares, m)
          /\ counters' = with_counter(counters, m)
    /\ UNCHANGED <<limiter, requests, router, group, registered, last, running, task, served>>

\* a request for a route owned by the top level or by a group enters the
\* composed chain of that route
Receive(owner, authorized) ==
    /\ running
    /\ task.pc \in {"idle", "done"}
    /\ served < MaxRequests
    /\ served' = served + 1
    /\ task' = [pc |-> "enter", depth |-> 1, owner |-> owner,
                chain |-> chain_for(owner), authorized |-> authorized, trace |-> <<>>,
                response |-> None, returned_early |-> 0]
    /\ UNCHANGED <<limiter, requests, router, group, registered, last, running, middlewares, counters>>

\* compose([m1, rest...], H): m1 runs with the rest of the chain as next.
\* rate_limit first resets its counter when its window has elapsed, then
\* takes the counter value with fetch_add.
Enter(expired) ==
    /\ task.pc = "enter"
    /\ task.depth <= Len(task.chain)
    /\ LET m == task.chain[task.depth]
           limited == m.kind = "rate_limit"
           current == IF limited THEN window_count(m, expired) ELSE 0
           entered == Append(task.trace, [event |-> "before", middleware |-> m])
       IN /\ limited \/ ~expired
          /\ counters' = IF limited THEN [counters EXCEPT ![m] = current + 1]
                         ELSE counters
          /\ IF calls_next(m, task.authorized, current)
             THEN task' = [task EXCEPT !.depth = @ + 1, !.trace = entered]
             ELSE task' = [task EXCEPT !.pc = "leave", !.depth = @ - 1,
                                       !.trace = entered,
                                       !.response = Some(early_return(m)),
                                       !.returned_early = task.depth]
    /\ UNCHANGED <<limiter, requests, router, group, registered, last, running, middlewares, served>>

\* compose([], H) = H: the handler is the innermost continuation
CallHandler ==
    /\ task.pc = "enter"
    /\ task.depth = Len(task.chain) + 1
    /\ task' = [task EXCEPT !.pc = "leave", !.depth = @ - 1,
                            !.trace = Append(@, [event |-> "handler"]),
                            !.response = Some(handler_response(1))]
    /\ UNCHANGED <<limiter, requests, router, group, registered, last, running, middlewares, counters, served>>

\* next(ctx) returns into the middleware that called it
Leave ==
    /\ task.pc = "leave"
    /\ task.depth >= 1
    /\ LET m == task.chain[task.depth]
       IN task' = [task EXCEPT !.depth = @ - 1,
                               !.trace = Append(@, [event |-> "after", middleware |-> m]),
                               !.response = Some(after_next(m, task.response[1]))]
    /\ UNCHANGED <<limiter, requests, router, group, registered, last, running, middlewares, counters, served>>

\* the outermost call returns to the caller
Respond ==
    /\ task.pc = "leave"
    /\ task.depth = 0
    /\ task' = [task EXCEPT !.pc = "done"]
    /\ UNCHANGED <<limiter, requests, router, group, registered, last, running, middlewares, counters, served>>

NextChain ==
    \/ \E kind \in MiddlewareKinds : UseMiddleware(kind)
    \/ EngineGroup(ApiPrefix)
    \/ \E kind \in MiddlewareKinds : GroupUseMiddleware(ApiPrefix, kind)
    \/ EngineRun
    \/ \E owner \in {TopLevel} \cup DOMAIN group, authorized \in BOOLEAN :
           Receive(owner, authorized)
    \/ \E expired \in BOOLEAN : Enter(expired)
    \/ CallHandler
    \/ Leave
    \/ Respond

SpecChain == Init /\ [][NextChain]_vars

\* --------------------------------------- rate_limit under concurrent tasks
rest_vars == <<router, group, registered, last, running, middlewares, counters, task, served>>

At(r, pc) == requests[r].pc = pc

\* last_reset.lock().unwrap()
Lock(r) ==
    /\ At(r, "lock")
    /\ limiter.holder = 0
    /\ limiter' = [limiter EXCEPT !.holder = r]
    /\ requests' = [requests EXCEPT ![r].pc = "check"]
    /\ UNCHANGED rest_vars

\* if last_reset.elapsed().as_secs() > 60
Check(r, expired) ==
    /\ At(r, "check")
    /\ expired => limiter.resets < MaxResets
    /\ requests' = [requests EXCEPT ![r].pc = IF expired THEN "store" ELSE "unlock"]
    /\ UNCHANGED <<limiter, rest_vars>>

\* requests_count.store(0, SeqCst); *last_reset = Instant::now()
Store(r) ==
    /\ At(r, "store")
    /\ limiter' = [limiter EXCEPT !.requests_count = 0, !.resets = @ + 1]
    /\ requests' = [requests EXCEPT ![r].pc = "unlock"]
    /\ UNCHANGED rest_vars

\* the guard is dropped at the end of the block
Unlock(r) ==
    /\ At(r, "unlock")
    /\ limiter' = [limiter EXCEPT !.holder = 0]
    /\ requests' = [requests EXCEPT ![r].pc = "fetch_add"]
    /\ UNCHANGED rest_vars

\* let current = requests_count.fetch_add(1, SeqCst)
FetchAdd(r) ==
    /\ At(r, "fetch_add")
    /\ limiter' = [limiter EXCEPT !.requests_count = @ + 1]
    /\ requests' = [requests EXCEPT ![r] =
                       [pc |-> "decide", current |-> limiter.requests_count,
                        counted_in |-> limiter.resets]]
    /\ UNCHANGED rest_vars

\* if current >= max_requests { return too_many_requests } next(ctx).await
Decide(r) ==
    /\ At(r, "decide")
    /\ IF rate_limit_calls_next(requests[r].current)
       THEN requests' = [requests EXCEPT ![r] =
                            [pc |-> "next", current |-> @.current,
                             counted_in |-> @.counted_in,
                             invoked_in |-> limiter.resets]]
       ELSE requests' = [requests EXCEPT ![r] =
                            [pc |-> "rejected", current |-> @.current,
                             counted_in |-> @.counted_in,
                             response |-> too_many_requests_json]]
    /\ UNCHANGED <<limiter, rest_vars>>

NextRate ==
    \E r \in 1..MaxTasks :
        \/ Lock(r)
        \/ \E expired \in BOOLEAN : Check(r, expired)
        \/ Store(r)
        \/ Unlock(r)
        \/ FetchAdd(r)
        \/ Decide(r)

SpecRate == Init /\ [][NextRate]_vars

\* ----------------------------------------------------------- parse_pattern
ParseAlphabet == {"/", ":", "*", "a"}
ParseInputs == UNION {[1..n -> ParseAlphabet] : n \in 0..MaxPatternLen}

InitParse ==
    /\ router = NewRouter
    /\ group = EmptyMap
    /\ registered = <<>>
    /\ last \in {[op |-> "pattern", pattern |-> pattern] : pattern \in ParseInputs}
    /\ running = FALSE
    /\ middlewares = <<>>
    /\ counters = EmptyMap
    /\ task = Idle
    /\ served = 0
    /\ limiter = NewLimiter
    /\ requests = NoRequests

\* Router::parse_pattern applied to the pattern at hand
ParsePattern ==
    /\ last.op = "pattern"
    /\ last' = [op |-> "parse_pattern", pattern |-> last.pattern,
                ret |-> parse_pattern(last.pattern)]
    /\ UNCHANGED <<limiter, requests, router, group, registered, running, chain_vars>>

NextParse == ParsePattern

SpecParse == InitParse /\ [][NextParse]_vars

\* ------------------------------------------------- vocabulary of the claims
IsGetRoute == last.op = "get_route"
IsHandleRequest == last.op = "handle_request"
Matched == IsHandleRequest /\ last.ret.pattern # None

\* every non-empty piece of a request path, none dropped
path_segments(path) == SelectSeq(split(path), LAMBDA piece : piece # <<>>)

\* a pattern whose wildcard, if any, is its last segment
WellFormed(P) == parse_pattern(P) = path_segments(P)

\* P with every ':name' piece replaced by v and a '*name' piece by r
Instantiate(P, v, r) ==
    LET pieces == split(P)
    IN join([i \in 1..Len(pieces) |->
                IF starts_with(pieces[i], ":") THEN v
                ELSE IF starts_with(pieces[i], "*") THEN r
                ELSE pieces[i]])

Substituted(P, v, r) ==
    LET segs == path_segments(P)
        idx == {i \in 1..Len(segs) : starts_with(segs[i], ":") \/ starts_with(segs[i], "*")}
    IN [name \in {Tail(segs[i]) : i \in idx} |->
           IF \E i \in idx : segs[i] = <<":">> \o name THEN v ELSE r]

Values == {<<"a">>, <<"b">>}
Remainders == {<<"b">>, <<"b", "/", "b">>, <<"b", "/", "a">>, <<"*", "b", "/", "b">>}

\* the router holds P, and nothing else, under the method
OnlyRoute(method, P) ==
    /\ \E i \in 1..Len(registered) : registered[i].method = method
    /\ \A i \in 1..Len(registered) :
          registered[i].method = method => registered[i].pattern = P

\* C1: on a router holding only P under a method, get_route for a path that
\* instantiates P returns the node of P and binds every name to the value
\* that was substituted for it.
C1_RoundTrip ==
    IsGetRoute =>
        \A P \in Patterns, v \in Values, r \in Remainders :
            (WellFormed(P) /\ OnlyRoute(last.method, P) /\ last.path = Instantiate(P, v, r))
                => /\ last.ret.node # None
                   /\ last.ret.node[1].pattern = P
                   /\ last.ret.params = Substituted(P, v, r)

RoutingParams == get_route(router, last.method, last.path).params

RegisteredUnder(method) == {i \in 1..Len(registered) : registered[i].method = method}

\* C6: a request whose method has no registered route gets the not-found
\* response and no handler runs, whatever is registered under other methods;
\* a handler that runs was registered under the method of the request.
C6_MethodIsolation ==
    /\ (IsGetRoute /\ RegisteredUnder(last.method) = {}) => last.ret.node = None
    /\ (IsHandleRequest /\ RegisteredUnder(last.method) = {})
          => last.ret.resp = not_found /\ last.ret.invoked = None
    /\ (IsHandleRequest /\ last.ret.invoked # None)
          => \E i \in RegisteredUnder(last.method) :
                registered[i].handler = last.ret.invoked[1]

C6_Witness ==
    /\ IsHandleRequest
    /\ RegisteredUnder(last.method) = {}
    /\ \E other \in Methods : get_route(router, other, last.path).node # None
    /\ last.ret.resp = not_found

RECURSIVE NoDupChildren(_)
NoDupChildren(node) ==
    /\ \A i, j \in 1..Len(node.children) :
          node.children[i].segment = node.children[j].segment => i = j
    /\ \A i \in 1..Len(node.children) : NoDupChildren(node.children[i])

\* the tree without its terminal bindings
RECURSIVE shape(_)
shape(node) ==
    [segment |-> node.segment,
     children |-> [i \in 1..Len(node.children) |-> shape(node.children[i])]]

shapes(r) == [method \in DOMAIN r.roots |-> shape(r.roots[method])]

\* the registrations of (method, pattern) made so far
RegisteredAs(method, pattern) ==
    {i \in 1..Len(registered) :
        registered[i].method = method /\ registered[i].pattern = pattern}

Latest(S) == CHOOSE i \in S : \A j \in S : j <= i

C7_State ==
    /\ \A method \in DOMAIN router.roots : NoDupChildren(router.roots[method])
    /\ (Matched /\ RegisteredAs(last.method, last.ret.pattern[1]) # {})
          => last.ret.invoked =
                Some(registered[Latest(RegisteredAs(last.method, last.ret.pattern[1]))].handler)

C7_Step ==
    (/\ last'.op = "add_route"
     /\ Len(registered') = Len(registered) + 1
     /\ RegisteredAs(last'.method, last'.pattern) # {})
        => /\ shapes(router') = shapes(router)
           /\ (Latest(RegisteredAs(last'.method, last'.pattern)) = Len(registered)
                  => get_all_routes(router') = get_all_routes(router))

\* C7: registering a (method, pattern) again adds no trie branch (children
\* stay unique by segment, the tree keeps its shape and, when it repeats the
\* previous registration, get_all_routes returns the same set), and a
\* matching request is dispatched to the handler registered last.
C7_ReRegistration == []C7_State /\ [][C7_Step]_vars

C7_Witness ==
    /\ Matched
    /\ Cardinality(RegisteredAs(last.method, last.ret.pattern[1])) = 2
    /\ last.ret.invoked = Some(2)
    /\ Cardinality(get_all_routes(router)) = 1

\* the pieces of a matched pattern that bind a parameter
ParamIndexes(segs) ==
    {i \in 1..Len(segs) : starts_with(segs[i], ":") \/ starts_with(segs[i], "*")}

\* C9: on a match every ':name' and '*name' segment of the pattern yields
\* one binding and literal segments none; ':name' is bound to the request
\* segment at its index, '*name' to the request segments from its index on,
\* joined with '/'.
C9_Extraction ==
    (IsGetRoute /\ last.ret.node # None) =>
        LET segs == parse_pattern(last.ret.node[1].pattern)
            req == path_segments(last.path)
            params == last.ret.params
        IN /\ DOMAIN params = {Tail(segs[i]) : i \in ParamIndexes(segs)}
           /\ Cardinality(DOMAIN params) = Cardinality(ParamIndexes(segs))
           /\ \A i \in ParamIndexes(segs) :
                 /\ starts_with(segs[i], ":") => params[Tail(segs[i])] = req[i]
                 /\ starts_with(segs[i], "*")
                       => params[Tail(segs[i])] = join(SubSeq(req, i, Len(req)))

\* C10: after add_route for two routes with distinct patterns the roots map
\* has two entries.
C10_TwoRoots ==
    (Len(registered) = 2 /\ registered[1].pattern # registered[2].pattern)
        => Cardinality(DOMAIN router.roots) = 2

\* the routes held by the groups, as they are visible from outside:
\* (method, prefix + local pattern)
GroupRoutes ==
    UNION {{<<mp[1], prefix \o mp[2]>> : mp \in get_all_routes(group[prefix].router)} :
              prefix \in DOMAIN group}

\* C5: a request for prefix + local pattern of a route registered on a group,
\* with that route's method, is dispatched to a handler and not answered
\* with the not-found response.
C5_GroupRouteDispatched ==
    (running /\ IsHandleRequest /\ <<last.method, last.path>> \in GroupRoutes)
        => last.ret.invoked # None /\ last.ret.resp # not_found

\* C8: on an engine with one top-level route and one route registered on a
\* group, get_all_routes returns both (method, pattern) pairs, the group
\* route under prefix + local pattern.
C8_AllRoutesUnified ==
    (/\ last.op = "get_all_routes"
     /\ Cardinality(get_all_routes(router)) = 1
     /\ Cardinality(GroupRoutes) = 1)
        => last.ret = get_all_routes(router) \cup GroupRoutes

InChain == task.pc # "idle"

\* the events of a request that goes through the middleware ms to the
\* handler and back
Onion(ms) ==
    [i \in 1..Len(ms) |-> [event |-> "before", middleware |-> ms[i]]]
        \o <<[event |-> "handler"]>>
        \o [i \in 1..Len(ms) |-> [event |-> "after", middleware |-> ms[Len(ms) + 1 - i]]]

OwnerMiddlewares ==
    IF task.owner = TopLevel THEN <<>> ELSE group[task.owner].middlewares

Position(m) == CHOOSE i \in 1..Len(task.chain) : task.chain[i] = m

Entered(i) ==
    \E n \in 1..Len(task.trace) :
        task.trace[n] = [event |-> "before", middleware |-> task.chain[i]]

\* C3: once a middleware has returned without calling its continuation, no
\* later middleware and not the handler run for the request, and the
\* middleware before it (the caller, when it is the first) receives exactly
\* the response it returned; auth returns early on a request without the
\* token.
C3_ShortCircuit ==
    InChain =>
        /\ task.returned_early > 0 =>
              /\ \A n \in 1..Len(task.trace) :
                    /\ task.trace[n].event # "handler"
                    /\ Position(task.trace[n].middleware) <= task.returned_early
              /\ (task.pc = "leave" /\ task.depth = task.returned_early - 1)
                    => task.response =
                         Some([status |-> IF task.chain[task.returned_early].kind = "auth"
                                          THEN 401 ELSE 429,
                               by |-> 0, headers |-> {}])
              /\ (task.pc = "done" /\ task.returned_early = 1)
                    => task.response[1].status \in {401, 429}
        /\ \A i \in 1..Len(task.chain) :
              (task.chain[i].kind = "auth" /\ ~task.authorized /\ Entered(i)
                 /\ ~(task.pc = "enter" /\ task.depth = i))
                 => task.returned_early = i

C3_Witness ==
    /\ InChain
    /\ task.returned_early = 2
    /\ Len(task.chain) = 3
    /\ task.pc = "leave"
    /\ task.depth = 1
    /\ task.response = Some(unauthorized_json)

\* the position of the first segment starting with '*', 0 when there is none
FirstWildcard(segs) ==
    IF \E i \in 1..Len(segs) : starts_with(segs[i], "*")
    THEN CHOOSE i \in 1..Len(segs) :
            /\ starts_with(segs[i], "*")
            /\ \A j \in 1..(i - 1) : ~starts_with(segs[j], "*")
    ELSE 0

\* C11: parse_pattern returns the non-empty '/'-separated segments of its
\* input in order, up to and including the first segment that starts with
\* '*'; empty segments and every segment after that one are absent.
C11_ParsePattern ==
    last.op = "parse_pattern" =>
        LET segs == path_segments(last.pattern)
            w == FirstWildcard(segs)
        IN /\ last.ret = (IF w = 0 THEN segs ELSE SubSeq(segs, 1, w))
           /\ \A i \in 1..Len(last.ret) :
                 /\ last.ret[i] # <<>>
                 /\ \A n \in 1..Len(last.ret[i]) : last.ret[i][n] # "/"
                 /\ starts_with(last.ret[i], "*") => i = Len(last.ret)

C11_Witness ==
    /\ last.op = "parse_pattern"
    /\ last.pattern = <<"/", "a", "/", "*", "a", "/", "a">>
    /\ last.ret = <<<<"a">>, <<"*", "a">>>>

IsParametric(seg) == starts_with(seg, ":") \/ starts_with(seg, "*")

\* the request segments q are an instance of the pattern segments s
Fits(s, q) ==
    /\ Len(s) <= Len(q)
    /\ \A i \in 1..Len(s) : s[i] = q[i] \/ IsParametric(s[i])
    /\ \/ Len(s) = Len(q)
       \/ Len(s) >= 1 /\ starts_with(s[Len(s)], "*")

\* a pattern registered under the method fits the segments q
SomeRouteFits(method, q) ==
    \E i \in RegisteredUnder(method) : Fits(parse_pattern(registered[i].pattern), q)

\* C12: a path of which no registered pattern is an instance (a literal
\* segment differs, the path stops on an internal node, or it has segments
\* beyond a pattern without wildcard) yields no match, and dispatch
\* answers not-found.
C12_NoMatchOffPattern ==
    /\ (IsGetRoute /\ ~SomeRouteFits(last.method, path_segments(last.path)))
          => last.ret.node = None
    /\ (IsHandleRequest /\ ~SomeRouteFits(last.method, path_segments(last.path)))
          => last.ret.resp = not_found /\ last.ret.invoked = None

IsPrefix(p, s) == Len(p) <= Len(s) /\ SubSeq(s, 1, Len(p)) = p

Earliest(S) == CHOOSE i \in S : \A j \in S : i <= j

\* the registration that created the trie branch of the segments p
BranchRank(method, p) ==
    Earliest({i \in RegisteredUnder(method) :
                 IsPrefix(p, parse_pattern(registered[i].pattern))})

\* the registration ranks of the branches on the way to the segments s
BranchOrder(method, s) == [k \in 1..Len(s) |-> BranchRank(method, SubSeq(s, 1, k))]

\* a comes before b in the order in which a depth-first search tries them
TriedBefore(a, b) ==
    \E k \in 1..Len(a) :
        /\ k <= Len(b)
        /\ a[k] < b[k]
        /\ \A n \in 1..(k - 1) : a[n] = b[n]

\* the segment sequences of the registered patterns that fit the segments q
FittingRoutes(method, q) ==
    {parse_pattern(registered[i].pattern) : i \in
        {j \in RegisteredUnder(method) : Fits(parse_pattern(registered[j].pattern), q)}}

\* C13: get_route returns the fitting route that a depth-first search over
\* the siblings in registration order reaches first: a sibling whose
\* subtree fails is left for the next one, and a parametric sibling
\* registered earlier wins over a literal one.
C13_FirstMatchInOrder ==
    IsGetRoute =>
        LET q == parse_pattern(last.path)
            fitting == FittingRoutes(last.method, q)
        IN IF fitting = {}
           THEN last.ret.node = None
           ELSE /\ last.ret.node # None
                /\ LET s == parse_pattern(last.ret.node[1].pattern)
                   IN /\ s \in fitting
                      /\ \A other \in fitting \ {s} :
                            TriedBefore(BranchOrder(last.method, s),
                                        BranchOrder(last.method, other))

C13_Witness ==
    /\ IsGetRoute
    /\ Len(registered) = 2
    /\ registered[1].method = last.method /\ registered[1].pattern = PatAXB
    /\ registered[2].method = last.method /\ registered[2].pattern = PatXB
    /\ last.path = <<"/", "a", "/", "b">>
    /\ last.ret.node # None
    /\ last.ret.node[1].pattern = PatXB

\* the registrations under the method whose pattern parses to the segments s
RegisteredOnNode(method, s) ==
    {i \in RegisteredUnder(method) : parse_pattern(registered[i].pattern) = s}

\* C14: whenever get_route returns a node the handler table holds the key
\* '{method}-{node.pattern}', so handle_request answers not-found only when
\* there is no trie match, and the handler under that key is the one
\* registered last for a pattern that parses to the node's segments.
C14_KeyOfMatchedNode ==
    /\ (IsGetRoute /\ last.ret.node # None)
          => format_key(last.method, last.ret.node[1].pattern) \in DOMAIN router.handlers
    /\ IsHandleRequest =>
          /\ (last.ret.resp = not_found)
                <=> (get_route(router, last.method, last.path).node = None)
          /\ Matched =>
                last.ret.invoked =
                    Some(registered[Latest(RegisteredOnNode(last.method,
                             parse_pattern(last.ret.pattern[1])))].handler)

Windows == 0..MaxResets

\* the requests whose continuation was invoked
Invoked == {r \in 1..MaxTasks : At(r, "next")}

Counted == {r \in 1..MaxTasks : requests[r].pc \in {"decide", "next", "rejected"}}

\* C15 as stated: the continuations invoked between two consecutive resets
\* (and before the first) number at most max_requests.
C15_InvokedBetweenResets ==
    \A w \in Windows :
        Cardinality({r \in Invoked : requests[r].invoked_in = w}) <= RateLimit

\* C15 amended: of the requests whose fetch_add on the counter falls between
\* two consecutive resets (or before the first) at most max_requests have
\* their continuation invoked; every other one of them gets the
\* rate-limit-exceeded response and its continuation is not called.
C15_AdmittedPerWindow ==
    /\ \A w \in Windows :
          Cardinality({r \in Invoked : requests[r].counted_in = w}) <= RateLimit
    /\ \A r \in 1..MaxTasks :
          /\ At(r, "rejected") => requests[r].response = too_many_requests_json
          /\ At(r, "next") => requests[r].current < RateLimit
    /\ \A w \in Windows :
          LET counted == {r \in Counted : requests[r].counted_in = w}
          IN Cardinality({r \in counted : requests[r].current < RateLimit})
                 <= RateLimit

C15_Witness ==
    /\ \E r \in Invoked : requests[r].counted_in = 0 /\ requests[r].invoked_in = 1
    /\ \E r \in Invoked : requests[r].counted_in = 1
    /\ \E r \in 1..MaxTasks : At(r, "rejected")

=============================================================================
